---- MODULE Spec2Model ----
(***************************************************************************)
(* The argh interpreter (src/argh.py): a two-dimensional, self-modifying,  *)
(* stack-based language.  The model follows the classes of the source:     *)
(* Position, Direction, the Instruction hierarchy, Codebox, Stack and      *)
(* Interpreter.  One action is one iteration of Interpreter.run (fetch,    *)
(* handle, advance), split by the class of the fetched instruction.        *)
(***************************************************************************)
EXTENDS Integers, Sequences, FiniteSets, TLC

VARIABLES
    code_box,     \* Codebox.code_box: rows of cells, a cell is [char_value, cls]
    position,     \* Interpreter.position: [x, y]
    dir,          \* Interpreter.dir: one of NORTH, WEST, SOUTH, EAST
    stack,        \* Interpreter.stack.stack: the top is the last element
    input,        \* Interpreter.input: None, or the characters not yet consumed
    running,      \* Interpreter.running
    instruction,  \* the local `instruction` of Interpreter.run: the cell last fetched
    stdout,       \* the character codes printed so far
    pc,           \* "init" (constructed), "run" (inside run), "exit0", "exit1"
    steps,        \* number of iterations of the loop of run taken so far
    lines,        \* the lines the interpreter was constructed from
    executed      \* history: for every instruction fetched so far, its code, where
                  \* it was fetched, the stack it found and the line input()
                  \* returned to it (<<line>>, or <<>> when input() was not called)

vars == <<code_box, position, dir, stack, input, running, instruction, stdout, pc, steps,
          lines, executed>>

-----------------------------------------------------------------------------
(* Bounds of the model *)

\* iterations of the main loop that are explored
MaxSteps == 7
\* longest line the input source hands over
MaxInputLen == 2

-----------------------------------------------------------------------------
(* Characters *)

\* ord() of the characters the programs and input lines below are written in;
\* "K*" is U+212A KELVIN SIGN, whose str.lower() is 'k'
ord(ch) ==
    CASE ch = "h" -> 104 [] ch = "j" -> 106 [] ch = "k" -> 107 [] ch = "l" -> 108
      [] ch = "a" -> 97  [] ch = "r" -> 114 [] ch = "d" -> 100 [] ch = "s" -> 115
      [] ch = "f" -> 102 [] ch = "e" -> 101 [] ch = "g" -> 103 [] ch = "p" -> 112
      [] ch = "x" -> 120 [] ch = "q" -> 113
      [] ch = "H" -> 72  [] ch = "J" -> 74  [] ch = "K" -> 75  [] ch = "L" -> 76
      [] ch = "A" -> 65  [] ch = "R" -> 82  [] ch = "D" -> 68  [] ch = "S" -> 83
      [] ch = "F" -> 70  [] ch = "E" -> 69  [] ch = "G" -> 71  [] ch = "P" -> 80
      [] ch = "X" -> 88  [] ch = "Q" -> 81
      [] ch = "#" -> 35  [] ch = "!" -> 33  [] ch = " " -> 32  [] ch = "\n" -> 10
      [] ch = "b" -> 98  [] ch = "2" -> 50  [] ch = "~" -> 126 [] ch = "K*" -> 8490

\* EOF_CHAR = '\0'
EOF_CHAR == 0

\* chr(v) raises ValueError outside range(0x110000)
chr_ok(v) == v >= 0 /\ v <= 1114111

\* ord(chr(v).lower()), for the code points whose lower-case form can be one of
\* the instruction characters: A-Z and U+212A.  Every other code point has a
\* lower-case form that is none of them and is kept as it is.
lower(v) ==
    IF v >= 65 /\ v <= 90 THEN v + 32
    ELSE IF v = 8490 THEN 107
    ELSE v

\* chr(v).islower(), for the code points that decode to an instruction class
islower(v) == v >= 97 /\ v <= 122

-----------------------------------------------------------------------------
(* Position and Direction *)

\* Position(x, y)
Position(x, y) == [x |-> x, y |-> y]

\* Direction(xoffset, yoffset)
Direction(xoffset, yoffset) == [xoffset |-> xoffset, yoffset |-> yoffset]

NORTH == Direction(0, -1)
WEST  == Direction(1, 0)
SOUTH == Direction(0, 1)
EAST  == Direction(-1, 0)

\* Position.__add__ with a Direction (also what += does: __IADD__ is no special method)
Position_add(self, other) == Position(self.x + other.xoffset, self.y + other.yoffset)

\* Position.__lt__ with a Position
Position_lt(self, other) == self.x < other.x \/ self.y < other.y

\* Position defines no __eq__, so == is object identity, and the right-hand side
\* of the comparison in Shebang.handle is an object constructed on the spot
Position_eq_new(self, x, y) == FALSE

-----------------------------------------------------------------------------
(* Instructions *)

\* instruction_create: the class is chosen from chr(char_value).lower(); a
\* ValueError of chr gives the base class
instruction_create(char_value) ==
    LET c == lower(char_value)
        cls == IF ~chr_ok(char_value) THEN "Instruction"
               ELSE CASE c = 104 -> "MoveEast"
                      [] c = 106 -> "MoveSouth"
                      [] c = 107 -> "MoveNorth"
                      [] c = 108 -> "MoveWest"
                      [] c = 97  -> "StackAdd"
                      [] c = 114 -> "StackReduce"
                      [] c = 100 -> "StackDropDupe"
                      [] c = 115 -> "StackAppend"
                      [] c = 102 -> "CodeboxChange"
                      [] c = 101 -> "CodeboxEOF"
                      [] c = 103 -> "Userinput"
                      [] c = 112 -> "Print"
                      [] c = 120 -> "Turn"
                      [] c = 35  -> "Shebang"
                      [] c = 113 -> "Quit"
                      [] OTHER   -> "Instruction"
    IN [char_value |-> char_value, cls |-> cls]

-----------------------------------------------------------------------------
(* Codebox *)

Max(a, b) == IF a >= b THEN a ELSE b

RECURSIVE MaxLen(_)
MaxLen(text) ==
    IF text = <<>> THEN 0 ELSE Max(Len(Head(text)), MaxLen(Tail(text)))

\* Codebox.__init__ without the loop that pads the rows
Codebox_Ragged(text) ==
    [i \in 1..Len(text) |-> [j \in 1..Len(text[i]) |-> instruction_create(text[i][j])]]

\* Codebox.__init__: a cell per character, every row padded with spaces to the
\* longest line
Codebox(text) ==
    LET width == MaxLen(text)
    IN [i \in 1..Len(text) |->
           [j \in 1..width |->
               IF j <= Len(text[i]) THEN instruction_create(text[i][j])
               ELSE instruction_create(ord(" "))]]

\* Codebox.get_instruction_at returns a cell (no call of argh): position is not
\* < Position() and both list indexings succeed
InBox(cb, pos) ==
    /\ ~Position_lt(pos, Position(0, 0))
    /\ pos.y < Len(cb)
    /\ pos.x < Len(cb[pos.y + 1])

CellAt(cb, pos) == cb[pos.y + 1][pos.x + 1]

\* list indexing of Python: 1-based index of element i of a list of n elements,
\* negative i counting from the end; 0 stands for IndexError
PyIndex(n, i) ==
    IF 0 <= i /\ i < n THEN i + 1
    ELSE IF -n <= i /\ i < 0 THEN n + i + 1
    ELSE 0

\* Codebox.set_instruction_at: self.code_box[position.y][position.x] = instruction
\* succeeds (no IndexError)
CanSet(cb, pos) ==
    /\ PyIndex(Len(cb), pos.y) # 0
    /\ PyIndex(Len(cb[PyIndex(Len(cb), pos.y)]), pos.x) # 0

Codebox_set(cb, pos, instr) ==
    LET r == PyIndex(Len(cb), pos.y)
        c == PyIndex(Len(cb[r]), pos.x)
    IN [cb EXCEPT ![r][c] = instr]

-----------------------------------------------------------------------------
(* Stack *)

\* Stack.peek: self.stack[-1]
Stack_peek(s) == s[Len(s)]

\* the list left by Stack.pop
Stack_pop(s) == SubSeq(s, 1, Len(s) - 1)

\* pop and peek raise IndexError on an empty list
Stack_empty(s) == Len(s) = 0

-----------------------------------------------------------------------------
(* The handlers.  A handler takes the interpreter as a record                *)
(*   [dir, position, stack, code_box, input, running, stdout, exc]          *)
(* and gives the interpreter it leaves behind; exc is "none" when it         *)
(* returns, "Exception" when it raises an exception that run catches, and    *)
(* "SystemExit" when a call of argh inside it has ended the process.         *)
(* Assignments made before the failure stay made.                            *)

Raise(self) == [self EXCEPT !.exc = "Exception"]

Exit(self) == [self EXCEPT !.exc = "SystemExit"]

\* the direction an instruction reads or writes: SOUTH for a lower-case
\* character, NORTH otherwise
Neighbour(instr) == IF islower(instr.char_value) THEN SOUTH ELSE NORTH

\* Interpreter.advance
advance(self) == [self EXCEPT !.position = Position_add(self.position, self.dir)]

\* the while loop of MoveInstruction.handle over a get_instruction_at without
\* the test position < Position(): a negative index counts from the end of the
\* list, and only the IndexError of the indexing ends a scan that finds no match
RECURSIVE Scan_Wrapping(_, _)
Scan_Wrapping(self, n) ==
    LET row == PyIndex(Len(self.code_box), self.position.y)
        col == IF row = 0 THEN 0 ELSE PyIndex(Len(self.code_box[row]), self.position.x)
    IN IF row = 0 \/ col = 0 THEN [after |-> Exit(self), advances |-> n]
       ELSE IF Stack_empty(self.stack) THEN [after |-> Raise(self), advances |-> n]
       ELSE IF self.code_box[row][col].char_value # Stack_peek(self.stack)
            THEN Scan_Wrapping(advance(self), n + 1)
       ELSE [after |-> self, advances |-> n]

\* the while loop of MoveInstruction.handle: get_current_instruction is read
\* first (argh outside the box), then the stack is peeked (IndexError when it is
\* empty); n counts the calls of advance made so far
RECURSIVE Scan(_, _)
Scan(self, n) ==
    IF ~InBox(self.code_box, self.position) THEN [after |-> Exit(self), advances |-> n]
    ELSE IF Stack_empty(self.stack) THEN [after |-> Raise(self), advances |-> n]
    ELSE IF CellAt(self.code_box, self.position).char_value # Stack_peek(self.stack)
         THEN Scan(advance(self), n + 1)
    ELSE [after |-> self, advances |-> n]

\* MoveInstruction.handle without the else branch: an upper-case move only sets
\* the direction
MoveInstruction_handle_NoScan(self, instr, d) == [self EXCEPT !.dir = d]

\* MoveInstruction.handle with a scan that stops one cell before the match, so
\* that the advance of the main loop ends on the matching cell
MoveInstruction_handle_StopsBefore(self, instr, d) ==
    LET r == Scan(advance([self EXCEPT !.dir = d]), 1).after
    IN IF islower(instr.char_value) THEN [self EXCEPT !.dir = d]
       ELSE IF r.exc # "none" THEN r
       ELSE [r EXCEPT !.position = Position(r.position.x - d.xoffset,
                                            r.position.y - d.yoffset)]

\* MoveInstruction.handle
MoveInstruction_handle(self, instr, d) ==
    IF islower(instr.char_value)
    THEN [self EXCEPT !.dir = d]
    ELSE Scan(advance([self EXCEPT !.dir = d]), 1).after

\* MoveEast.handle with the direction the compass name suggests for h's opposite
MoveEast_handle_Mirrored(self, instr) == MoveInstruction_handle(self, instr, WEST)

MoveNorth_handle(self, instr) == MoveInstruction_handle(self, instr, NORTH)
MoveWest_handle(self, instr)  == MoveInstruction_handle(self, instr, WEST)
MoveSouth_handle(self, instr) == MoveInstruction_handle(self, instr, SOUTH)
MoveEast_handle(self, instr)  == MoveInstruction_handle(self, instr, EAST)

\* StackAdd.handle with an empty stack read as 0 instead of raising
StackAdd_handle_EmptyIsZero(self, instr) ==
    LET at == Position_add(self.position, Neighbour(instr))
        top == IF Stack_empty(self.stack) THEN 0 ELSE Stack_peek(self.stack)
        popped == [self EXCEPT !.stack = Stack_pop(self.stack)]
    IN IF ~InBox(self.code_box, at) THEN Exit(popped)
       ELSE [popped EXCEPT !.stack = Append(@, top + CellAt(self.code_box, at).char_value)]

\* StackAdd.handle: the pop comes first, then the read of the neighbour
StackAdd_handle(self, instr) ==
    LET at == Position_add(self.position, Neighbour(instr))
        popped == [self EXCEPT !.stack = Stack_pop(self.stack)]
    IN IF Stack_empty(self.stack) THEN Raise(self)
       ELSE IF ~InBox(self.code_box, at) THEN Exit(popped)
       ELSE [popped EXCEPT !.stack =
                Append(@, Stack_peek(self.stack) + CellAt(self.code_box, at).char_value)]

\* StackReduce.handle with the operands of the subtraction exchanged
StackReduce_handle_Exchanged(self, instr) ==
    LET at == Position_add(self.position, Neighbour(instr))
        popped == [self EXCEPT !.stack = Stack_pop(self.stack)]
    IN IF Stack_empty(self.stack) THEN Raise(self)
       ELSE IF ~InBox(self.code_box, at) THEN Exit(popped)
       ELSE [popped EXCEPT !.stack =
                Append(@, CellAt(self.code_box, at).char_value - Stack_peek(self.stack))]

\* StackReduce.handle
StackReduce_handle(self, instr) ==
    LET at == Position_add(self.position, Neighbour(instr))
        popped == [self EXCEPT !.stack = Stack_pop(self.stack)]
    IN IF Stack_empty(self.stack) THEN Raise(self)
       ELSE IF ~InBox(self.code_box, at) THEN Exit(popped)
       ELSE [popped EXCEPT !.stack =
                Append(@, Stack_peek(self.stack) - CellAt(self.code_box, at).char_value)]

\* StackDropDupe.handle with the two cases exchanged
StackDropDupe_handle_Exchanged(self, instr) ==
    IF Stack_empty(self.stack) THEN Raise(self)
    ELSE IF islower(instr.char_value)
         THEN [self EXCEPT !.stack = Stack_pop(@)]
         ELSE [self EXCEPT !.stack = Append(@, Stack_peek(self.stack))]

\* StackDropDupe.handle
StackDropDupe_handle(self, instr) ==
    IF Stack_empty(self.stack) THEN Raise(self)
    ELSE IF islower(instr.char_value)
         THEN [self EXCEPT !.stack = Append(@, Stack_peek(self.stack))]
         ELSE [self EXCEPT !.stack = Stack_pop(@)]

\* StackAppend.handle
StackAppend_handle(self, instr) ==
    LET at == Position_add(self.position, Neighbour(instr))
    IN IF ~InBox(self.code_box, at) THEN Exit(self)
       ELSE [self EXCEPT !.stack = Append(@, CellAt(self.code_box, at).char_value)]

\* CodeboxChange.handle storing the popped code in the instruction that is
\* already in the cell, which keeps its class
CodeboxChange_handle_KeepsKind(self, instr) ==
    LET at == Position_add(self.position, Neighbour(instr))
        popped == [self EXCEPT !.stack = Stack_pop(self.stack)]
    IN IF Stack_empty(self.stack) THEN Raise(self)
       ELSE IF ~CanSet(self.code_box, at) THEN Raise(popped)
       ELSE [popped EXCEPT !.code_box =
                Codebox_set(@, at,
                    [char_value |-> Stack_peek(self.stack),
                     cls |-> self.code_box[PyIndex(Len(self.code_box), at.y)]
                                          [PyIndex(Len(self.code_box[1]), at.x)].cls])]

\* CodeboxChange.handle: the pop comes first; set_instruction_at makes no bounds
\* check of its own, an IndexError of the list assignment is the only failure
CodeboxChange_handle(self, instr) ==
    LET at == Position_add(self.position, Neighbour(instr))
        popped == [self EXCEPT !.stack = Stack_pop(self.stack)]
    IN IF Stack_empty(self.stack) THEN Raise(self)
       ELSE IF ~CanSet(self.code_box, at) THEN Raise(popped)
       ELSE [popped EXCEPT !.code_box =
                Codebox_set(@, at, instruction_create(Stack_peek(self.stack)))]

\* CodeboxEOF.handle without the push of EOF_CHAR
CodeboxEOF_handle_NoPush(self, instr) ==
    CodeboxChange_handle(self, instr)

\* CodeboxEOF.handle
CodeboxEOF_handle(self, instr) ==
    CodeboxChange_handle([self EXCEPT !.stack = Append(@, EOF_CHAR)], instr)

\* Userinput.handle taking the last character of the buffer: pop() for pop(0)
Userinput_handle_FromEnd(self, instr, line) ==
    LET buffer == IF self.input.is_none THEN Append(line, EOF_CHAR) ELSE self.input.list
        filled == [self EXCEPT !.input = [is_none |-> FALSE, list |-> buffer]]
    IN IF buffer = <<>> THEN Raise(filled)
       ELSE CodeboxChange_handle(
                [filled EXCEPT !.input.list = SubSeq(buffer, 1, Len(buffer) - 1),
                               !.stack = Append(@, buffer[Len(buffer)])], instr)

\* Userinput.handle; line is what input() returns if it is called
Userinput_handle(self, instr, line) ==
    LET buffer == IF self.input.is_none THEN Append(line, EOF_CHAR) ELSE self.input.list
        filled == [self EXCEPT !.input = [is_none |-> FALSE, list |-> buffer]]
    IN IF buffer = <<>> THEN Raise(filled)
       ELSE CodeboxChange_handle(
                [filled EXCEPT !.input.list = Tail(buffer),
                               !.stack = Append(@, Head(buffer))], instr)

\* Print.handle: chr raises ValueError for a code that is no code point
Print_handle(self, instr) ==
    LET at == Position_add(self.position, Neighbour(instr))
    IN IF ~InBox(self.code_box, at) THEN Exit(self)
       ELSE IF ~chr_ok(CellAt(self.code_box, at).char_value) THEN Raise(self)
       ELSE [self EXCEPT !.stdout = Append(@, CellAt(self.code_box, at).char_value)]

\* Interpreter.turn_left with the assignments of turn_right
turn_left_Clockwise(d) ==
    CASE d = NORTH -> WEST
      [] d = WEST  -> SOUTH
      [] d = SOUTH -> EAST
      [] d = EAST  -> NORTH

\* Interpreter.turn_left
turn_left(d) ==
    CASE d = NORTH -> EAST
      [] d = WEST  -> NORTH
      [] d = SOUTH -> WEST
      [] d = EAST  -> SOUTH

\* Interpreter.turn_right
turn_right(d) ==
    CASE d = NORTH -> WEST
      [] d = WEST  -> SOUTH
      [] d = SOUTH -> EAST
      [] d = EAST  -> NORTH

\* Turn.handle with an empty stack taken as "no turn" instead of raising
Turn_handle_EmptyIsNoTurn(self, instr) ==
    IF Stack_empty(self.stack) THEN self
    ELSE IF islower(instr.char_value)
         THEN IF Stack_peek(self.stack) > 0 THEN [self EXCEPT !.dir = turn_right(@)] ELSE self
         ELSE IF Stack_peek(self.stack) < 0 THEN [self EXCEPT !.dir = turn_left(@)] ELSE self

\* Turn.handle
Turn_handle(self, instr) ==
    IF Stack_empty(self.stack) THEN Raise(self)
    ELSE IF islower(instr.char_value)
         THEN IF Stack_peek(self.stack) > 0 THEN [self EXCEPT !.dir = turn_right(@)] ELSE self
         ELSE IF Stack_peek(self.stack) < 0 THEN [self EXCEPT !.dir = turn_left(@)] ELSE self

\* Instruction.handle as a no-op instead of raise Exception()
Instruction_handle_Pass(self, instr) == self

\* Instruction.handle
Instruction_handle(self, instr) == Raise(self)

\* Shebang.handle
Shebang_handle(self, instr) ==
    IF Position_eq_new(self.position, 0, 0)
    THEN IF ~InBox(self.code_box, Position_add(self.position, WEST)) THEN Exit(self)
         ELSE IF CellAt(self.code_box, Position_add(self.position, WEST)).char_value = ord("!")
              THEN [self EXCEPT !.dir = SOUTH]
              ELSE self
    ELSE Instruction_handle(self, instr)

\* Quit.handle that leaves the running flag set
Quit_handle_StillRunning(self, instr) == self

\* Quit.handle
Quit_handle(self, instr) == [self EXCEPT !.running = FALSE]

-----------------------------------------------------------------------------
(* The interpreter *)

\* what Interpreter.argh prints: print(f"\nargh!!")
ArghLine == <<ord("\n"), ord("a"), ord("r"), ord("g"), ord("h"), ord("!"), ord("!"), ord("\n")>>

\* the interpreter as the handlers see it
Self ==
    [dir |-> dir, position |-> position, stack |-> stack, code_box |-> code_box,
     input |-> input, running |-> running, stdout |-> stdout, exc |-> "none"]

\* Interpreter.argh without the sys.exit(1): the line is printed and the loop
\* of run goes on
argh_PrintOnly(after) ==
    /\ dir' = after.dir
    /\ position' = Position_add(after.position, after.dir)
    /\ stack' = after.stack
    /\ code_box' = after.code_box
    /\ input' = after.input
    /\ running' = after.running
    /\ stdout' = after.stdout \o ArghLine
    /\ pc' = "run"

\* Interpreter.argh: the diagnostic line, then sys.exit(1).  SystemExit is no
\* Exception, so neither the except clause of run nor the caller of run stops it.
argh(after) ==
    /\ dir' = after.dir
    /\ position' = after.position
    /\ stack' = after.stack
    /\ code_box' = after.code_box
    /\ input' = after.input
    /\ running' = after.running
    /\ stdout' = after.stdout \o ArghLine
    /\ pc' = "exit1"

\* the rest of an iteration of run once the handler has returned: advance, then
\* the test of the while loop; run returns, and the process ends, with status 0
\* when running was cleared
Continue(after) ==
    /\ dir' = after.dir
    /\ position' = Position_add(after.position, after.dir)
    /\ stack' = after.stack
    /\ code_box' = after.code_box
    /\ input' = after.input
    /\ running' = after.running
    /\ stdout' = after.stdout
    /\ pc' = IF after.running THEN "run" ELSE "exit0"

\* try: instruction.handle(self)  except Exception: self.argh()
Handled(after) == IF after.exc = "none" THEN Continue(after) ELSE argh(after)

\* the loop of run is entered with an instruction of class cls under the position
Fetch(cls, read) ==
    /\ pc = "run"
    /\ running
    /\ steps < MaxSteps
    /\ InBox(code_box, position)
    /\ CellAt(code_box, position).cls = cls
    /\ instruction' = CellAt(code_box, position)
    /\ steps' = steps + 1
    /\ executed' = Append(executed, [char_value |-> CellAt(code_box, position).char_value,
                                      position |-> position,
                                      stack |-> stack,
                                      read |-> read])
    /\ UNCHANGED lines

\* Interpreter.run, up to the loop
run ==
    /\ pc = "init"
    /\ running' = TRUE
    /\ pc' = "run"
    /\ UNCHANGED <<code_box, position, dir, stack, input, instruction, stdout, steps, lines,
                   executed>>

\* get_current_instruction at the top of the loop calls argh: the position is
\* outside the box
FetchOutside ==
    /\ pc = "run"
    /\ running
    /\ steps < MaxSteps
    /\ ~InBox(code_box, position)
    /\ argh(Self)
    /\ steps' = steps + 1
    /\ UNCHANGED <<instruction, lines, executed>>

MoveNorth == Fetch("MoveNorth", <<>>) /\ Handled(MoveNorth_handle(Self, instruction'))
MoveWest  == Fetch("MoveWest", <<>>)  /\ Handled(MoveWest_handle(Self, instruction'))
MoveSouth == Fetch("MoveSouth", <<>>) /\ Handled(MoveSouth_handle(Self, instruction'))
MoveEast  == Fetch("MoveEast", <<>>)  /\ Handled(MoveEast_handle(Self, instruction'))
StackAdd  == Fetch("StackAdd", <<>>)  /\ Handled(StackAdd_handle(Self, instruction'))
StackReduce   == Fetch("StackReduce", <<>>)   /\ Handled(StackReduce_handle(Self, instruction'))
StackDropDupe == Fetch("StackDropDupe", <<>>) /\ Handled(StackDropDupe_handle(Self, instruction'))
StackAppend   == Fetch("StackAppend", <<>>)   /\ Handled(StackAppend_handle(Self, instruction'))
CodeboxChange == Fetch("CodeboxChange", <<>>) /\ Handled(CodeboxChange_handle(Self, instruction'))
CodeboxEOF    == Fetch("CodeboxEOF", <<>>)    /\ Handled(CodeboxEOF_handle(Self, instruction'))
PrintStep     == Fetch("Print", <<>>)         /\ Handled(Print_handle(Self, instruction'))
Turn          == Fetch("Turn", <<>>)          /\ Handled(Turn_handle(Self, instruction'))
Shebang       == Fetch("Shebang", <<>>)       /\ Handled(Shebang_handle(Self, instruction'))
Quit          == Fetch("Quit", <<>>)          /\ Handled(Quit_handle(Self, instruction'))
Instruction   == Fetch("Instruction", <<>>)   /\ Handled(Instruction_handle(Self, instruction'))

\* the lines input() can return
InputChars == {ord("a"), ord("b"), ord("q")}

InputLines == UNION {[1..n -> InputChars] : n \in 0..MaxInputLen}

Userinput ==
    \E line \in (IF input.is_none THEN InputLines ELSE {<<>>}) :
       /\ Fetch("Userinput", IF input.is_none THEN <<line>> ELSE <<>>)
       /\ Handled(Userinput_handle(Self, instruction', line))

-----------------------------------------------------------------------------
(* The programs the interpreter is constructed from *)

\* the characters a program cell is drawn from: every instruction character in
\* both cases, and characters that are no instruction
Alphabet ==
    {"h", "j", "k", "l", "a", "r", "d", "s", "f", "e", "g", "p", "x", "q",
     "H", "J", "K", "L", "A", "R", "D", "S", "F", "E", "G", "P", "X", "Q",
     "#", "!", " ", "2", "K*"}

\* a line of a program, written as a tuple of characters
Line(chars) == [i \in 1..Len(chars) |-> ord(chars[i])]

Program(rows) == [i \in 1..Len(rows) |-> Line(rows[i])]

\* no line, one empty line, and one or two instructions on the first row, alone
\* or over a second row that is shorter, as long or longer
Short ==
    {<<>>, <<<<>>>>}
    \cup {Program(<<<<a>>>>) : a \in Alphabet}
    \cup {Program(<<<<a, b>>>>) : a \in Alphabet, b \in Alphabet}
    \cup {Program(<<<<a, b>>, r>>) : a \in Alphabet, b \in Alphabet,
                                     r \in {<<"q">>, <<"2", "q">>, <<" ", "!", "q">>}}

\* a track on the middle row of three: j and l lead to it, s pushes the code of
\* v, then two instructions a and b run with n above and m below the first
Track ==
    {Program(<<<<"j", " ", n, "2">>, <<"l", "s", a, b>>, <<" ", v, m, "q">>>>) :
        a \in Alphabet, b \in Alphabet, v \in {"2", "l"},
        n \in {"2", "q"}, m \in {"2", "q", " "}}

\* programs written out: the shebang line, input lines consumed to the end,
\* scans that find their cell (one of them looking for the code of the scanning
\* move itself), a loop, cells written and then executed
Written ==
    {Program(<<<<"#", "!", "q">>, <<"q", " ", " ">>>>),
     Program(<<<<"g", "g", "g", "g">>, <<" ", " ", " ", " ">>>>),
     Program(<<<<"g", "G", "g", "G">>, <<" ", " ", " ", " ">>>>),
     Program(<<<<"s", "L", " ", "2", "q">>, <<"2">>>>),
     Program(<<<<"s", "J", "q">>, <<"q", " ">>, <<" ", " ">>, <<" ", "q">>, <<" ", "q">>>>),
     Program(<<<<"s", "l", "h">>, <<"2">>>>),
     Program(<<<<"E", "q">>, <<" ", " ">>, <<"2", " ">>>>),
     Program(<<<<"s", "r", "f", "j">>, <<"2", "q", " ", "h">>>>),
     Program(<<<<"s", "f", "j">>, <<"q", " ", "h">>>>),
     Program(<<<<"s", "K*", "q">>, <<"2">>>>),
     Program(<<<<"s", "L", "2", "L", "q">>, <<"L">>>>)}

\* a ConditionalTurn t reached with each of the four headings, the top of the
\* stack being the code of "2" less the code of m: zero, negative or positive
Turns ==
    UNION {{Program(<<<<"s", "r", t, "q">>, <<"2", m, "q", "q">>>>),
            Program(<<<<"s", "r", "j">>, <<"2", m, t>>, <<"q", "q", "q">>>>),
            Program(<<<<"s", "r", "l", "j">>, <<"2", m, t, "h">>, <<"q", "q", "q", "q">>>>),
            Program(<<<<"j", "q", "q", t, "q">>, <<"l", "s", "r", "k", "q">>,
                      <<" ", "2", m, " ", " ">>>>)} :
           t \in {"x", "X"}, m \in {"2", "q", " "}}

\* four UserInputs in a row, in every mix of the two cases, on a middle row so
\* that both neighbours are in the grid
Inputs ==
    {Program(<<<<"j", " ", " ", " ", " ">>, <<"l", a, b, c, d>>,
               <<" ", " ", " ", " ", " ">>>>) :
        a \in {"g", "G"}, b \in {"g", "G"}, c \in {"g", "G"}, d \in {"g", "G"}}

Programs == Short \cup Track \cup Written \cup Turns \cup Inputs

-----------------------------------------------------------------------------
(* The specification *)

\* the module level (the lines are read, Interpreter is constructed) up to the
\* call of run
Init ==
    /\ lines \in Programs
    /\ code_box = Codebox(lines)
    /\ dir = WEST
    /\ position = Position(0, 0)
    /\ stack = <<>>
    /\ input = [is_none |-> TRUE, list |-> <<>>]
    /\ running = FALSE
    /\ instruction = [char_value |-> 0, cls |-> "None"]
    /\ stdout = <<>>
    /\ pc = "init"
    /\ steps = 0
    /\ executed = <<>>

Next ==
    \/ run
    \/ FetchOutside
    \/ MoveNorth
    \/ MoveWest
    \/ MoveSouth
    \/ MoveEast
    \/ StackAdd
    \/ StackReduce
    \/ StackDropDupe
    \/ StackAppend
    \/ CodeboxChange
    \/ CodeboxEOF
    \/ Userinput
    \/ PrintStep
    \/ Turn
    \/ Shebang
    \/ Quit
    \/ Instruction

Spec == Init /\ [][Next]_vars

-----------------------------------------------------------------------------
(* Vocabulary of the properties, stated on the grid and the character codes  *)
(* and not through the operators above                                       *)

Height == Len(code_box)

Width == IF Height = 0 THEN 0 ELSE Len(code_box[1])

\* the coordinate addresses an existing cell
InGrid(p) == 0 <= p.x /\ p.x < Width /\ 0 <= p.y /\ p.y < Height

\* the raw code of the cell at an in-grid coordinate
Code(p) == code_box[p.y + 1][p.x + 1].char_value

\* p moved n times along the vector (vx, vy)
Along(p, vx, vy, n) == [x |-> p.x + n * vx, y |-> p.y + n * vy]

\* the next step of the engine executes the cell under the position
Executing == pc = "run" /\ InGrid(position)

\* ... and that cell holds the lower-case letter ch, the upper-case letter of
\* ch, or either
ExecutingLower(ch) == Executing /\ Code(position) = ord(ch)

ExecutingUpper(ch) == Executing /\ Code(position) = ord(ch) - 32

ExecutingLetter(ch) == ExecutingLower(ch) \/ ExecutingUpper(ch)

\* the vertical neighbour the executing cell works on: south for a lower-case
\* letter, north for an upper-case one
Target == Along(position, 0, IF Code(position) >= 97 THEN 1 ELSE -1, 1)

Aborted == pc = "exit1"

\* the raw code at p + n * (vx, vy) is the value on top of the stack
MatchAt(p, vx, vy, n) ==
    /\ InGrid(Along(p, vx, vy, n))
    /\ Code(Along(p, vx, vy, n)) = stack[Len(stack)]

\* n is the first n >= 1 with a match at p + n * (vx, vy), and every cell
\* before it on the line is in the grid
FirstMatch(p, vx, vy, n) ==
    /\ MatchAt(p, vx, vy, n)
    /\ \A m \in 1..(n - 1) : InGrid(Along(p, vx, vy, m)) /\ ~MatchAt(p, vx, vy, m)

\* the numbers of steps a straight line can take inside the grid
Reach == 1..(Width + Height)

-----------------------------------------------------------------------------
(* C1 *)

\* C1 (as claimed): a CodeboxChange, EOF-inject or UserInput whose target
\* neighbour is outside the grid (north of row 0, south of the last row) reaches
\* the abort procedure and leaves every cell of the grid as it was.
C1_OutOfRangeWriteAborts ==
    [][(/\ ExecutingLetter("f") \/ ExecutingLetter("e") \/ ExecutingLetter("g")
        /\ ~InGrid(Target))
       => (Aborted' /\ code_box' = code_box)]_vars

-----------------------------------------------------------------------------
(* C2 *)

\* C2 (as claimed): `#` executed at the origin with '!' at (1,0) does not abort;
\* the heading becomes (0,1) and the next cell executed is (0,1).
C2_ShebangDivertsDown ==
    [][(/\ Executing
        /\ position.x = 0 /\ position.y = 0
        /\ Code(position) = ord("#")
        /\ InGrid(Along(position, 1, 0, 1))
        /\ Code(Along(position, 1, 0, 1)) = ord("!"))
       => (/\ ~Aborted'
           /\ dir' = [xoffset |-> 0, yoffset |-> 1]
           /\ position' = [x |-> 0, y |-> 1])]_vars

-----------------------------------------------------------------------------
(* C3 *)

\* C3 (as claimed): a UserInput that finds the buffer empty after an earlier
\* line and its sentinel have been consumed does not abort for that reason: it
\* reads a new line, appends the sentinel 0 and consumes the front character.
C3_EmptyBufferIsRefilled ==
    [][(/\ ExecutingLetter("g")
        /\ InGrid(Target)
        /\ ~input.is_none
        /\ input.list = <<>>)
       => (/\ ~Aborted'
           /\ \E line \in InputLines :
                 /\ input'.list = Tail(Append(line, 0))
                 /\ code_box'[Target.y + 1][Target.x + 1].char_value
                        = Head(Append(line, 0)))]_vars

-----------------------------------------------------------------------------
(* C4 *)

\* C4 (as claimed): with an empty stack, executing any of Add, Reduce, upper-case
\* DropDupe, Append, CodeboxChange or Print reaches the abort procedure, and so
\* does a position driven outside the grid; after the abort nothing resumes.
C4_EmptyStackAlwaysAborts ==
    [][/\ (/\ stack = <<>>
           /\ \/ ExecutingLetter("a") \/ ExecutingLetter("r") \/ ExecutingUpper("d")
              \/ ExecutingLetter("s") \/ ExecutingLetter("f") \/ ExecutingLetter("p"))
          => Aborted'
       /\ (pc = "run" /\ ~InGrid(position)) => Aborted'
       /\ Aborted => Aborted']_vars

\* C4 (amended): with an empty stack Add, Reduce, upper-case DropDupe and
\* CodeboxChange reach the abort procedure.  Append and Print do not use the
\* stack: with an empty stack they abort when the neighbour they read is outside
\* the grid, and otherwise Append pushes the neighbour's code and Print prints it
\* (when it is the code of a character), both without abort.  A fetch at a
\* position outside the grid aborts, and after the abort nothing resumes.
C4_EmptyStackAborts ==
    [][/\ (/\ stack = <<>>
           /\ \/ ExecutingLetter("a") \/ ExecutingLetter("r") \/ ExecutingUpper("d")
              \/ ExecutingLetter("f"))
          => (Aborted' /\ stack' = <<>> /\ code_box' = code_box)
       /\ (/\ stack = <<>>
           /\ ExecutingLetter("s") \/ ExecutingLetter("p")
           /\ ~InGrid(Target))
          => (Aborted' /\ stack' = <<>>)
       /\ (stack = <<>> /\ ExecutingLetter("s") /\ InGrid(Target))
          => (~Aborted' /\ stack' = <<Code(Target)>>)
       /\ (/\ stack = <<>> /\ ExecutingLetter("p") /\ InGrid(Target)
           /\ Code(Target) >= 0 /\ Code(Target) <= 1114111)
          => (~Aborted' /\ stack' = <<>> /\ stdout' = Append(stdout, Code(Target)))
       /\ (pc = "run" /\ ~InGrid(position)) => Aborted'
       /\ Aborted => UNCHANGED vars]_vars

\* an Append ran as the first instruction, on the empty stack, and the engine
\* runs on with the neighbour's code pushed
C4_Witness ==
    /\ steps = 1
    /\ instruction.char_value = ord("s")
    /\ pc = "run"
    /\ stack = <<code_box[2][1].char_value>>

-----------------------------------------------------------------------------
(* C5 *)

\* C5: every instruction that pops or peeks the stack (Add, Reduce, DropDupe in
\* both cases, CodeboxChange, ConditionalTurn, the scan of an upper-case move)
\* reaches the abort procedure when executed with an empty stack: the engine
\* does not run on, the stack stays empty and no cell is written.
C5_PopPeekOnEmptyAborts ==
    [][(/\ stack = <<>>
        /\ \/ ExecutingLetter("a") \/ ExecutingLetter("r") \/ ExecutingLetter("d")
           \/ ExecutingLetter("f") \/ ExecutingLetter("x")
           \/ ExecutingUpper("h") \/ ExecutingUpper("j")
           \/ ExecutingUpper("k") \/ ExecutingUpper("l"))
       => (/\ Aborted'
           /\ stack' = <<>>
           /\ code_box' = code_box
           /\ stdout' = stdout \o ArghLine)]_vars

\* a ConditionalTurn ran as the first instruction, on the empty stack, and the
\* process has ended in the abort procedure
C5_Witness ==
    /\ steps = 1
    /\ instruction.char_value \in {ord("x"), ord("X")}
    /\ Aborted
    /\ stack = <<>>

-----------------------------------------------------------------------------
(* C6 *)

\* C6: the abort procedure, triggered by a main-loop fetch outside the grid, a
\* neighbour read outside the grid, an upper-case-move scan that leaves the grid
\* or an exception in an instruction's behaviour, prints the diagnostic line and
\* ends the run with exit status 1; a step that prints the diagnostic line
\* always does so; and from then on nothing is fetched or executed and the
\* stack, the grid and everything else stay as they are.
C6_AbortIsFinal ==
    [][/\ (\/ pc = "run" /\ ~InGrid(position)
           \/ /\ \/ ExecutingLetter("s") \/ ExecutingLetter("p")
                 \/ ExecutingLetter("a") \/ ExecutingLetter("r")
              /\ ~InGrid(Target)
           \/ /\ stack # <<>>
              /\ \/ ExecutingUpper("h") /\ \A n \in Reach : ~FirstMatch(position, -1, 0, n)
                 \/ ExecutingUpper("j") /\ \A n \in Reach : ~FirstMatch(position, 0, 1, n)
                 \/ ExecutingUpper("k") /\ \A n \in Reach : ~FirstMatch(position, 0, -1, n)
                 \/ ExecutingUpper("l") /\ \A n \in Reach : ~FirstMatch(position, 1, 0, n)
           \/ ExecutingLetter("d") /\ stack = <<>>
           \/ Executing /\ Code(position) = ord(" "))
          => (Aborted' /\ stdout' = stdout \o ArghLine)
       /\ (stdout' = stdout \o ArghLine) => Aborted'
       /\ Aborted => UNCHANGED vars]_vars

\* an upper-case L with a value on the stack scanned to the right edge without a
\* match and the process ended in the abort procedure
C6_Witness ==
    /\ instruction.char_value = ord("L")
    /\ Aborted
    /\ stack # <<>>
    /\ position.x = Width
    /\ dir = [xoffset |-> 1, yoffset |-> 0]

-----------------------------------------------------------------------------
(* C7 *)

\* C7: run starts the engine Running at the origin with heading (1,0).  Quit in
\* either case halts it gracefully: exit status 0, no abort even when the
\* position after Quit is outside the grid, grid, stack and output as Quit found
\* them; a program that is the single cell q ends with no output.  Halted is
\* entered only by Quit (status 0) or by abort (status 1), and never left.
C7_QuitHaltsGracefully ==
    /\ [](pc = "init" => position = [x |-> 0, y |-> 0] /\ dir = [xoffset |-> 1, yoffset |-> 0])
    /\ []((pc = "exit0" /\ lines = <<<<ord("q")>>>>) => (stdout = <<>> /\ steps = 1))
    /\ [][/\ pc = "init" => (pc' = "run" /\ running' /\ position' = position /\ dir' = dir)
          /\ ExecutingLetter("q")
                => (/\ pc' = "exit0"
                    /\ code_box' = code_box /\ stack' = stack /\ stdout' = stdout)
          /\ (pc # "exit0" /\ pc' = "exit0") => ExecutingLetter("q")
          /\ (pc # "exit1" /\ pc' = "exit1") => stdout' = stdout \o ArghLine
          /\ pc \in {"exit0", "exit1"} => UNCHANGED vars]_vars

\* an upper-case Q was executed in the last column, the position after it is
\* outside the grid and the process has ended with status 0
C7_Witness ==
    /\ instruction.char_value = ord("Q")
    /\ pc = "exit0"
    /\ position.x = Width
    /\ ~running

-----------------------------------------------------------------------------
(* C8 *)

-----------------------------------------------------------------------------
(* C9 *)

\* what a lower-case move executed at position p does, for the vector (vx, vy):
\* the heading becomes the vector, the next cell fetched is p + (vx, vy), the
\* stack, the grid and the output are unchanged, nothing aborts in the step
LowerMoveTo(vx, vy) ==
    /\ dir' = [xoffset |-> vx, yoffset |-> vy]
    /\ position' = Along(position, vx, vy, 1)
    /\ pc' = "run"
    /\ stack' = stack
    /\ code_box' = code_box
    /\ stdout' = stdout

\* C9: h, j, k, l set the heading to (-1,0), (0,1), (0,-1), (1,0), whatever it
\* was before; the next cell fetched is one cell away in that heading; stack
\* and grid are unchanged.  Every fetch takes the cell under the position.
C9_LowerCaseMoves ==
    [][/\ ExecutingLower("h") => LowerMoveTo(-1, 0)
       /\ ExecutingLower("j") => LowerMoveTo(0, 1)
       /\ ExecutingLower("k") => LowerMoveTo(0, -1)
       /\ ExecutingLower("l") => LowerMoveTo(1, 0)
       /\ Executing => instruction'.char_value = Code(position)]_vars

\* an h was executed while the heading was (0,1): the heading is now (-1,0) and
\* the position is the cell to the left of the h
C9_Witness ==
    /\ instruction.char_value = ord("h")
    /\ pc = "run"
    /\ dir = [xoffset |-> -1, yoffset |-> 0]
    /\ InGrid(Along(position, 1, 0, 1))
    /\ Code(Along(position, 1, 0, 1)) = ord("h")
    /\ position.y > 0
    /\ InGrid(Along(position, 1, -1, 1))
    /\ Code(Along(position, 1, -1, 1)) = ord("j")

-----------------------------------------------------------------------------
(* C10 *)

\* what an upper-case move executed at position p with a non-empty stack does,
\* for the vector (vx, vy): with a first match at p + n * (vx, vy), n >= 1, the
\* scan stops there and the advance of the main loop leaves the position one
\* cell further; without a match inside the grid the step ends in the abort
\* procedure.  Either way the heading is the vector, the stack and the grid are
\* unchanged and nothing is printed by a scanned cell.
UpperMoveTo(vx, vy) ==
    /\ dir' = [xoffset |-> vx, yoffset |-> vy]
    /\ stack' = stack
    /\ code_box' = code_box
    /\ input' = input
    /\ running' = running
    /\ \A n \in Reach :
          FirstMatch(position, vx, vy, n)
             => (/\ pc' = "run"
                 /\ position' = Along(position, vx, vy, n + 1)
                 /\ stdout' = stdout)
    /\ (\A n \in Reach : ~FirstMatch(position, vx, vy, n))
          => (Aborted' /\ stdout' = stdout \o ArghLine)

\* C10: H, J, K, L set the heading to (-1,0), (0,1), (0,-1), (1,0) and scan in a
\* straight line, at least one cell, to the first cell whose code is the top of
\* the stack; the top is only peeked, no scanned cell is executed, stack and
\* grid are unchanged, and a scan with no match before the boundary aborts.
C10_UpperCaseMoves ==
    [][stack # <<>> =>
        /\ ExecutingUpper("h") => UpperMoveTo(-1, 0)
        /\ ExecutingUpper("j") => UpperMoveTo(0, 1)
        /\ ExecutingUpper("k") => UpperMoveTo(0, -1)
        /\ ExecutingUpper("l") => UpperMoveTo(1, 0)]_vars

\* a J scanned down past two cells that do not match, stopped on the third and
\* the main loop advanced once more: the position is four rows below the J
C10_Witness ==
    /\ instruction.char_value = ord("J")
    /\ pc = "run"
    /\ stack # <<>>
    /\ dir = [xoffset |-> 0, yoffset |-> 1]
    /\ InGrid(Along(position, 0, -1, 4))
    /\ Code(Along(position, 0, -1, 4)) = ord("J")
    /\ Code(Along(position, 0, -1, 1)) = stack[Len(stack)]
    /\ Code(Along(position, 0, -1, 2)) # stack[Len(stack)]
    /\ Code(Along(position, 0, -1, 3)) # stack[Len(stack)]

-----------------------------------------------------------------------------
(* C11 *)

\* the headings in their cyclic order V0, V1, V2, V3
Headings ==
    <<[xoffset |-> 0, yoffset |-> -1], [xoffset |-> 1, yoffset |-> 0],
      [xoffset |-> 0, yoffset |-> 1], [xoffset |-> -1, yoffset |-> 0]>>

HeadingIndex(d) == CHOOSE i \in 1..4 : Headings[i] = d

\* V(i+1 mod 4) and V(i-1 mod 4) of Vi
RightOf(d) == Headings[(HeadingIndex(d) % 4) + 1]

LeftOf(d) == Headings[((HeadingIndex(d) + 2) % 4) + 1]

Top == stack[Len(stack)]

\* the heading becomes d, the next cell fetched lies one step in that heading,
\* the stack, the grid and the output stay as they are
TurnTo(d) ==
    /\ dir' = d
    /\ position' = Along(position, d.xoffset, d.yoffset, 1)
    /\ pc' = "run"
    /\ stack' = stack
    /\ code_box' = code_box
    /\ stdout' = stdout

\* C11: ConditionalTurn only peeks.  From every heading Vi, x with a top > 0
\* turns right once (to V(i+1 mod 4)), X with a top < 0 turns left once (to
\* V(i-1 mod 4)); a top of 0, x with a negative top and X with a positive top
\* keep the heading.  Turn left undoes turn right and conversely, and four
\* turns the same way give the heading back.
C11_ConditionalTurn ==
    /\ [](\E i \in 1..4 : dir = Headings[i])
    /\ [](\A i \in 1..4 :
            LET d == Headings[i]
            IN /\ turn_right(d) = RightOf(d)
               /\ turn_left(d) = LeftOf(d)
               /\ turn_left(turn_right(d)) = d
               /\ turn_right(turn_left(d)) = d
               /\ turn_right(turn_right(turn_right(turn_right(d)))) = d
               /\ turn_left(turn_left(turn_left(turn_left(d)))) = d)
    /\ [][/\ (ExecutingLower("x") /\ stack # <<>>)
                => TurnTo(IF Top > 0 THEN RightOf(dir) ELSE dir)
          /\ (ExecutingUpper("x") /\ stack # <<>>)
                => TurnTo(IF Top < 0 THEN LeftOf(dir) ELSE dir)]_vars

\* an X reached with heading V3 = (-1,0), coming from an h on its right, found a
\* negative top and turned left: the heading is V2 = (0,1) and the position is
\* the cell below the X
C11_Witness ==
    /\ instruction.char_value = ord("X")
    /\ pc = "run"
    /\ stack # <<>>
    /\ Top < 0
    /\ dir = [xoffset |-> 0, yoffset |-> 1]
    /\ executed[Len(executed)].position = Along(position, 0, -1, 1)
    /\ Len(executed) > 1
    /\ executed[Len(executed) - 1].char_value = ord("h")

-----------------------------------------------------------------------------
(* Vocabulary of the properties about more than one step: the history *)

\* the instruction executed last and the one before it
Last == executed[Len(executed)]

Prev == executed[Len(executed) - 1]

\* the entry is the letter ch in either case
Is(e, ch) == e.char_value \in {ord(ch), ord(ch) - 32}

\* the vertical neighbour the entry worked on
TargetOf(e) == Along(e.position, 0, IF e.char_value >= 97 THEN 1 ELSE -1, 1)

\* the stack s without its top
Below(s) == SubSeq(s, 1, Len(s) - 1)

-----------------------------------------------------------------------------
(* C12 *)

\* C12: an Add against a neighbour with code c, executed with v on top, leaves
\* v + c on top of the same lower elements; a Reduce executed next against a
\* neighbour with the same code c, in the same case or the other, leaves the
\* stack exactly as it was before the Add.
C12_AddReduceRoundTrip ==
    /\ (Len(executed) >= 1 /\ pc = "run" /\ Is(Last, "a"))
          => (/\ InGrid(TargetOf(Last))
              /\ Last.stack # <<>>
              /\ stack = Append(Below(Last.stack),
                                Last.stack[Len(Last.stack)] + Code(TargetOf(Last))))
    /\ (/\ Len(executed) >= 2 /\ pc = "run"
        /\ Is(Prev, "a") /\ Is(Last, "r")
        /\ Code(TargetOf(Prev)) = Code(TargetOf(Last)))
          => stack = Prev.stack

\* a lower-case a and then an upper-case R ran against neighbours with the same
\* code and the stack is the one the a found
C12_Witness ==
    /\ Len(executed) >= 2
    /\ pc = "run"
    /\ Prev.char_value = ord("a")
    /\ Last.char_value = ord("R")
    /\ Code(TargetOf(Prev)) = Code(TargetOf(Last))
    /\ Last.stack # Prev.stack
    /\ stack = Prev.stack

-----------------------------------------------------------------------------
(* C13 *)

\* C13: on a non-empty stack a lower-case d leaves the stack one deeper with the
\* former top twice on top, and an upper-case D executed next leaves the stack
\* exactly as it was before the d.
C13_DupeThenDrop ==
    /\ (Len(executed) >= 1 /\ pc = "run" /\ Last.char_value = ord("d"))
          => (/\ Last.stack # <<>>
              /\ Len(stack) = Len(Last.stack) + 1
              /\ stack = Append(Last.stack, Last.stack[Len(Last.stack)])
              /\ stack[Len(stack)] = stack[Len(stack) - 1])
    /\ (/\ Len(executed) >= 2 /\ pc = "run"
        /\ Prev.char_value = ord("d") /\ Last.char_value = ord("D"))
          => (stack = Prev.stack /\ Len(Last.stack) = Len(stack) + 1)

\* a d and then a D ran and the stack is the one the d found
C13_Witness ==
    /\ Len(executed) >= 2
    /\ pc = "run"
    /\ Prev.char_value = ord("d")
    /\ Last.char_value = ord("D")
    /\ stack = Prev.stack
    /\ stack # <<>>

-----------------------------------------------------------------------------
(* C14 *)

\* the executions of a UserInput so far, in either case
UserInputs == {i \in 1..Len(executed) : Is(executed[i], "g")}

\* the line the first of them read
LineRead == executed[CHOOSE i \in UserInputs : \A j \in UserInputs : i <= j].read[1]

\* what the line gives to consume: its characters and then the sentinel
Consumed == LineRead \o <<0>>

\* C14: the UserInputs executed so far, g and G in any mix, have taken the
\* characters c1..cn of the line and then the sentinel 0 from the front of one
\* buffer, in order: after the k-th execution the buffer holds what follows the
\* k-th of these codes, the neighbour of that execution (south for g, north
\* for G), when the grid has it, holds the k-th code and the execution did not
\* abort, and the stack is the one the execution found.  For the line "ab" the codes are those of a, of b, and 0.
C14_InputConsumedInOrder ==
    LET k == Cardinality(UserInputs) IN
    (k >= 1 /\ k <= Len(Consumed)) =>
        /\ ~input.is_none
        /\ input.list = SubSeq(Consumed, k + 1, Len(Consumed))
        /\ Is(Last, "g") =>
              /\ stack = Last.stack
              /\ InGrid(TargetOf(Last)) =>
                    /\ pc = "exit1" => ~InGrid(position)
                    /\ Code(TargetOf(Last)) = Consumed[k]
                    /\ LineRead = <<ord("a"), ord("b")>> =>
                          Code(TargetOf(Last)) = <<ord("a"), ord("b"), 0>>[k]

\* the line "ab" was read, a G wrote the code of b to the cell north of it, and
\* the third UserInput, a g, has just written the sentinel south of it
C14_Witness ==
    /\ Cardinality(UserInputs) = 3
    /\ LineRead = <<ord("a"), ord("b")>>
    /\ pc = "run"
    /\ Last.char_value = ord("g")
    /\ Prev.char_value = ord("G")
    /\ Prev.position.y = 1
    /\ Code(TargetOf(Prev)) = ord("b")
    /\ Code(TargetOf(Last)) = 0
    /\ input.list = <<>>

-----------------------------------------------------------------------------
(* C15 *)

\* the length of the longest input line, 0 if there is no line
Longest ==
    IF lines = <<>> THEN 0
    ELSE CHOOSE n \in {Len(lines[i]) : i \in 1..Len(lines)} :
            \A i \in 1..Len(lines) : Len(lines[i]) <= n

\* C15: after construction and in every state reached afterwards, writes
\* included, the grid has as many rows as there are input lines and every row
\* is as long as the longest input line; as constructed a row holds the
\* characters of its line and then space cells.
C15_GridIsRectangular ==
    /\ Len(code_box) = Len(lines)
    /\ \A i \in 1..Len(code_box) : Len(code_box[i]) = Longest
    /\ pc = "init" =>
          \A i \in 1..Len(code_box) : \A j \in 1..Longest :
             /\ j <= Len(lines[i]) => code_box[i][j].char_value = lines[i][j]
             /\ j > Len(lines[i]) => code_box[i][j] = instruction_create(ord(" "))

\* the first line is the shorter one, its row ends in a space cell, and an f
\* has rewritten a cell of the second row
C15_Witness ==
    /\ Len(lines) = 2
    /\ Len(lines[1]) < Len(lines[2])
    /\ code_box[1][Len(lines[2])].char_value = ord(" ")
    /\ Len(executed) >= 1
    /\ Last.char_value = ord("f")
    /\ pc = "run"
    /\ Code(TargetOf(Last)) # lines[2][Last.position.x + 1]

-----------------------------------------------------------------------------
(* C16 *)

\* entry i is a CodeboxChange that wrote to the cell executed last, and no
\* instruction that writes to the grid ran between the two
WroteLast(i) ==
    /\ Is(executed[i], "f")
    /\ executed[i].stack # <<>>
    /\ TargetOf(executed[i]) = Last.position
    /\ \A j \in (i + 1)..(Len(executed) - 1) :
          ~(Is(executed[j], "f") \/ Is(executed[j], "e") \/ Is(executed[j], "g"))

\* C16: in every reachable state the kind of each grid cell is the decoding of
\* the cell's own raw code; a CodeboxChange that pops v leaves its neighbour in
\* the grid with raw code v and kind decode(v) in that one step; and the cell
\* executed next at that place is executed as code v with kind decode(v).
C16_KindFollowsCode ==
    /\ \A y \in 1..Len(code_box) : \A x \in 1..Len(code_box[y]) :
          code_box[y][x] = instruction_create(code_box[y][x].char_value)
    /\ (/\ Len(executed) >= 1 /\ Is(Last, "f")
        /\ Last.stack # <<>> /\ InGrid(TargetOf(Last)))
          => (/\ Code(TargetOf(Last)) = Last.stack[Len(Last.stack)]
              /\ CellAt(code_box, TargetOf(Last)).cls
                    = instruction_create(Last.stack[Len(Last.stack)]).cls
              /\ stack = Below(Last.stack))
    /\ Len(executed) >= 1 => instruction = instruction_create(Last.char_value)
    /\ \A i \in 1..(Len(executed) - 1) :
          WroteLast(i) =>
              /\ Last.char_value = executed[i].stack[Len(executed[i].stack)]
              /\ instruction.cls
                    = instruction_create(executed[i].stack[Len(executed[i].stack)]).cls

\* a q an f wrote over a space has been executed and has ended the run as a
\* Quit does, where the space would have aborted it
C16_Witness ==
    /\ Len(executed) >= 2
    /\ pc = "exit0"
    /\ Last.char_value = ord("q")
    /\ lines[Last.position.y + 1][Last.position.x + 1] = ord(" ")
    /\ \E i \in 1..(Len(executed) - 1) : WroteLast(i)

-----------------------------------------------------------------------------
(* C17 *)

\* C17: an e or E executed with its neighbour (south for e, north for E) in the
\* grid does not abort, whatever the stack, empty or not; it leaves the stack
\* as it found it, leaves that neighbour with raw code 0 and the Default kind,
\* and changes no other cell.
C17_EOFInject ==
    [][(ExecutingLetter("e") /\ InGrid(Target)) =>
          /\ pc' = "run"
          /\ stack' = stack
          /\ Len(code_box') = Height
          /\ \A y \in 1..Height :
                /\ Len(code_box'[y]) = Width
                /\ \A x \in 1..Width :
                      IF [x |-> x - 1, y |-> y - 1] = Target
                      THEN code_box'[y][x] = [char_value |-> 0, cls |-> "Instruction"]
                      ELSE code_box'[y][x] = code_box[y][x]]_vars

\* an e found the stack empty, the run goes on, and the cell south of the e,
\* which was constructed with another code, holds the code 0
C17_Witness ==
    /\ Len(executed) >= 1
    /\ Last.char_value = ord("e")
    /\ Last.stack = <<>>
    /\ stack = <<>>
    /\ pc = "run"
    /\ InGrid(TargetOf(Last))
    /\ Code(TargetOf(Last)) = 0
    /\ lines[Last.position.y + 2][Last.position.x + 1] # 0

\* an E with a cell north of it wrote the code 0 there and left a stack that
\* is not empty as it was
C17_UpperReached ==
    /\ Len(executed) >= 1
    /\ Last.char_value = ord("E")
    /\ Last.stack # <<>>
    /\ stack = Last.stack
    /\ pc = "run"
    /\ InGrid(TargetOf(Last))
    /\ Code(TargetOf(Last)) = 0

-----------------------------------------------------------------------------
(* C18 *)

\* the instruction executed last is an upper-case move with the vector (vx, vy)
\* as its heading
LastIsUpperMove(vx, vy) ==
    /\ Len(executed) >= 1
    /\ \/ Last.char_value = ord("H") /\ vx = -1 /\ vy = 0
       \/ Last.char_value = ord("J") /\ vx = 0 /\ vy = 1
       \/ Last.char_value = ord("K") /\ vx = 0 /\ vy = -1
       \/ Last.char_value = ord("L") /\ vx = 1 /\ vy = 0

Vectors == {<<-1, 0>>, <<0, 1>>, <<0, -1>>, <<1, 0>>}

\* the scan of the upper-case move executed last stopped n cells away
LastScanStopped(vx, vy, n) ==
    /\ LastIsUpperMove(vx, vy)
    /\ stack # <<>>
    /\ FirstMatch(Last.position, vx, vy, n)

\* C18: when the scan of an upper-case move has stopped on a matching cell m,
\* the position is m + d, one cell beyond m in the new heading d; the next step
\* fetches and executes the cell there and not m, or aborts the run if m + d is
\* outside the grid.
C18_MatchedCellIsSkipped ==
    /\ [](\A v \in Vectors : \A n \in Reach :
            LastScanStopped(v[1], v[2], n) =>
               /\ dir = [xoffset |-> v[1], yoffset |-> v[2]]
               /\ position = Along(Last.position, v[1], v[2], n + 1)
               /\ position # Along(Last.position, v[1], v[2], n)
               /\ pc = "exit1" => ~InGrid(position))
    /\ [][\A v \in Vectors : \A n \in Reach :
            (LastScanStopped(v[1], v[2], n) /\ pc = "run") =>
               IF InGrid(position)
               THEN /\ Len(executed') = Len(executed) + 1
                    /\ Last'.position = Along(Last.position, v[1], v[2], n + 1)
                    /\ Last'.char_value = Code(position)
                    /\ instruction'.char_value = Code(position)
               ELSE /\ Aborted'
                    /\ executed' = executed
                    /\ stdout' = stdout \o ArghLine]_vars

\* an L scanned over a cell that does not match and stopped on the next, which
\* was never executed; the q beyond it was and has ended the run
C18_Witness ==
    /\ Len(executed) >= 2
    /\ pc = "exit0"
    /\ Prev.char_value = ord("L")
    /\ Last.char_value = ord("q")
    /\ Last.position = Along(Prev.position, 1, 0, 3)
    /\ Code(Along(Prev.position, 1, 0, 2)) = Prev.stack[Len(Prev.stack)]
    /\ Code(Along(Prev.position, 1, 0, 1)) # Prev.stack[Len(Prev.stack)]
    /\ \A i \in 1..Len(executed) : executed[i].position # Along(Prev.position, 1, 0, 2)

\* a scan stopped on the last cell of its line and the run was aborted
C18_AbortReached ==
    /\ \E v \in Vectors : \E n \in Reach : LastScanStopped(v[1], v[2], n)
    /\ ~InGrid(position)
    /\ Aborted

-----------------------------------------------------------------------------
(* C19 *)

\* the codes that are executed as an upper-case move, each with its vector
UpperMoves ==
    {<<ord("H"), -1, 0>>, <<ord("J"), 0, 1>>, <<ord("K"), 0, -1>>, <<ord("L"), 1, 0>>,
     <<ord("K*"), 0, -1>>}

\* the larger of the width and the height of the grid
Longer == IF Width >= Height THEN Width ELSE Height

\* C19: the scan of every upper-case move ends: after at most max(W, H)
\* advances along its one vector it has either stopped on a cell of the grid
\* whose code is the top of the stack, and the main loop advances once more, or
\* gone to the abort procedure, at the latest on the first cell outside the
\* grid.
C19_ScanTerminates ==
    /\ [](\A m \in UpperMoves :
            (Executing /\ Code(position) = m[1]) =>
               LET scan == Scan(advance([Self EXCEPT !.dir = [xoffset |-> m[2],
                                                              yoffset |-> m[3]]]), 1)
               IN /\ scan.advances >= 1
                  /\ scan.advances <= Longer
                  /\ \/ scan.after.exc # "none"
                     \/ /\ InGrid(scan.after.position)
                        /\ stack # <<>>
                        /\ Code(scan.after.position) = stack[Len(stack)])
    /\ [][\A m \in UpperMoves :
            (Executing /\ Code(position) = m[1]) =>
               \E k \in 1..Longer :
                  /\ \A j \in 1..(k - 1) : InGrid(Along(position, m[2], m[3], j))
                  /\ \/ /\ Aborted'
                        /\ position' = Along(position, m[2], m[3], k)
                     \/ /\ pc' = "run"
                        /\ MatchAt(position, m[2], m[3], k)
                        /\ position' = Along(position, m[2], m[3], k + 1)]_vars

\* an H in the last column of a grid that is wider than high found no match:
\* the run was aborted one cell left of the first column, after as many
\* advances as the grid is wide
C19_Witness ==
    /\ Len(executed) >= 1
    /\ Last.char_value = ord("H")
    /\ Last.stack # <<>>
    /\ Aborted
    /\ Width > Height
    /\ Last.position.x = Width - 1
    /\ position = Along(Last.position, -1, 0, Width)

-----------------------------------------------------------------------------
(* C20 *)

\* the cells of the grid that the step changes
Changed ==
    {p \in [x : 0..(Width - 1), y : 0..(Height - 1)] :
        code_box'[p.y + 1][p.x + 1] # code_box[p.y + 1][p.x + 1]}

\* p is in the column of the executing cell, one row above or below it
VerticalNeighbour(p) ==
    p.x = position.x /\ (p.y = position.y + 1 \/ p.y = position.y - 1)

ExecutingMove ==
    ExecutingLetter("h") \/ ExecutingLetter("j") \/ ExecutingLetter("k") \/ ExecutingLetter("l")

ExecutingWriter ==
    ExecutingLetter("f") \/ ExecutingLetter("e") \/ ExecutingLetter("g")

\* C20 (as claimed): a step changes a cell of the grid only if it executes a
\* CodeboxChange, an EOF-inject or a UserInput, and then at most one cell, which
\* is a vertical neighbour of the executing cell in its column; a Move, Print,
\* ConditionalTurn or Quit leaves the stack as it was; and a Print that does
\* not abort emits one character, the raw code of its neighbour.
C20_Frame ==
    [][Executing =>
         /\ Len(code_box') = Height
         /\ \A y \in 1..Height : Len(code_box'[y]) = Width
         /\ Changed # {} => ExecutingWriter
         /\ Cardinality(Changed) <= 1
         /\ \A p \in Changed : VerticalNeighbour(p)
         /\ (ExecutingMove \/ ExecutingLetter("p") \/ ExecutingLetter("x")
                \/ ExecutingLetter("q")) => stack' = stack
         /\ (ExecutingLetter("p") /\ ~Aborted') =>
               (InGrid(Target) /\ stdout' = Append(stdout, Code(Target)))
         /\ (~ExecutingLetter("p") /\ ~Aborted') => stdout' = stdout]_vars

====
